---- MODULE Spec2Model ----
(***************************************************************************)
(* Model of bencinmonitor/api (src/api.py): the /stations handler          *)
(* list_stations, the cache-aside geocode(), the limit enforcers           *)
(* safe_limit/safe_distance and the record shaping of simple_station.      *)
(*                                                                         *)
(* Python strings are sequences of one-character strings, so that split,   *)
(* replace, slugify, int(), float(), dumps and loads are computed and not  *)
(* assumed.  Python values that may have several types are tagged          *)
(* records [tag, v].                                                       *)
(***************************************************************************)
EXTENDS Integers, Sequences, FiniteSets, TLC

(***************************************************************************)
(* Bounds of the model.                                                    *)
(***************************************************************************)
\* Number of concurrently served requests / geocode calls.
NProc == 2
\* expire_ttl (86400 s in the code) counted in ticks of the model's clock.
ExpireTTL == 2
\* Longest `prices` query string enumerated by ProjSpec.
MaxLen == 3
\* Largest configured ceiling/default and requested value in LimitSpec.
MaxCfg == 3

Procs == 1..NProc

(***************************************************************************)
(* Strings.                                                                *)
(***************************************************************************)
K_key == <<"k", "e", "y">>
K_loc == <<"l", "o", "c">>
K_address == <<"a", "d", "d", "r", "e", "s", "s">>
K_updated_at == <<"u", "p", "d", "a", "t", "e", "d", "_", "a", "t">>
K_prices == <<"p", "r", "i", "c", "e", "s">>
K_scraped_url == <<"s", "c", "r", "a", "p", "e", "d", "_", "u", "r", "l">>
K_distance == <<"d", "i", "s", "t", "a", "n", "c", "e">>
K_id == <<"_", "i", "d">>

Digits == {"0", "1", "2", "3", "4", "5", "6", "7", "8", "9"}

DigitVal(c) ==
    CASE c = "0" -> 0 [] c = "1" -> 1 [] c = "2" -> 2 [] c = "3" -> 3
      [] c = "4" -> 4 [] c = "5" -> 5 [] c = "6" -> 6 [] c = "7" -> 7
      [] c = "8" -> 8 [] c = "9" -> 9

DigitChar(n) ==
    CASE n = 0 -> "0" [] n = 1 -> "1" [] n = 2 -> "2" [] n = 3 -> "3"
      [] n = 4 -> "4" [] n = 5 -> "5" [] n = 6 -> "6" [] n = 7 -> "7"
      [] n = 8 -> "8" [] n = 9 -> "9"

\* str.replace(old, new) for one-character old and new.
StrReplace(s, old, new) ==
    [i \in 1..Len(s) |-> IF s[i] = old THEN new ELSE s[i]]

\* c in s
StrContains(s, c) == \E i \in 1..Len(s) : s[i] = c

\* str.split(sep): always at least one piece, empty pieces kept.
RECURSIVE StrSplit(_, _)
StrSplit(s, sep) ==
    IF ~StrContains(s, sep)
    THEN <<s>>
    ELSE LET i == CHOOSE j \in 1..Len(s) :
                      s[j] = sep /\ \A k \in 1..(j - 1) : s[k] # sep
         IN  <<SubSeq(s, 1, i - 1)>> \o StrSplit(SubSeq(s, i + 1, Len(s)), sep)

\* Value of a non-empty run of decimal digits.
RECURSIVE DecimalValue(_)
DecimalValue(s) ==
    IF Len(s) = 0 THEN 0
    ELSE 10 * DecimalValue(SubSeq(s, 1, Len(s) - 1)) + DigitVal(s[Len(s)])

IsDecimal(s) == Len(s) > 0 /\ \A i \in 1..Len(s) : s[i] \in Digits

\* int(s): [ok, v]; ok = FALSE is Python's ValueError.  Over the alphabet
\* the model draws from, a valid literal is an optional '-' and digits.
PyInt(s) ==
    IF IsDecimal(s) THEN [ok |-> TRUE, v |-> DecimalValue(s)]
    ELSE IF Len(s) > 1 /\ s[1] = "-" /\ IsDecimal(Tail(s))
         THEN [ok |-> TRUE, v |-> 0 - DecimalValue(Tail(s))]
         ELSE [ok |-> FALSE, v |-> 0]

\* float(s) over the alphabet the model draws `at` from (digits, ',', 'x').
PyFloat(s) ==
    IF IsDecimal(s) THEN [ok |-> TRUE, v |-> DecimalValue(s)]
    ELSE [ok |-> FALSE, v |-> 0]

\* A query argument: absent, or present with a string value.
Absent == [has |-> FALSE, s |-> <<>>]
Given(s) == [has |-> TRUE, s |-> s]

\* Tagged Python values of the variable `at` and of geocode's result.
PyList(v) == [tag |-> "list", v |-> v]
PyException == [tag |-> "Exception", v |-> <<>>]
PyNone == [tag |-> "None", v |-> <<>>]

\* Python truthiness of such a value: a list is true when non-empty, an
\* Exception instance is always true.
Truthy(x) == x.tag = "Exception" \/ (x.tag = "list" /\ Len(x.v) > 0)

(***************************************************************************)
(* Configuration (app.config): every value is the string getenv returns.   *)
(***************************************************************************)
DefaultConfig ==
    [LIST_LIMIT |-> <<"5", "0">>,
     LIST_DEFAULT_COUNT |-> <<"1", "0">>,
     DISTANCE_DEFAULT |-> <<"1", "0", "0", "0", "0">>,
     DISTANCE_LIMIT |-> <<"5", "0", "0", "0", "0">>]

NoArgs ==
    [prices |-> Absent, at |-> Absent, near |-> Absent,
     limit |-> Absent, maxDistance |-> Absent]

(***************************************************************************)
(* Limit Enforcer.                                                         *)
(***************************************************************************)
\* Faulty variant: it clamps only a supplied value and returns the default as it is.
safe_limit_unclamped_default(cfg, a, key, default_key, query_param) ==
    LET ceiling == PyInt(cfg[key])
        limit == PyInt(IF a[query_param].has THEN a[query_param].s
                       ELSE cfg[default_key])
    IN  IF ~limit.ok \/ ~ceiling.ok THEN [ok |-> FALSE, v |-> 0]
        ELSE IF a[query_param].has /\ ~(limit.v < ceiling.v)
             THEN [ok |-> TRUE, v |-> ceiling.v]
             ELSE [ok |-> TRUE, v |-> limit.v]

\* safe_limit(key, default_key, query_param): [ok, v]; ok = FALSE is the
\* ValueError of int().
safe_limit(cfg, a, key, default_key, query_param) ==
    LET raw == IF a[query_param].has THEN a[query_param].s ELSE cfg[default_key]
        limit == PyInt(raw)
        ceiling == PyInt(cfg[key])
    IN  IF ~limit.ok \/ ~ceiling.ok THEN [ok |-> FALSE, v |-> 0]
        ELSE IF limit.v < ceiling.v THEN [ok |-> TRUE, v |-> limit.v]
             ELSE [ok |-> TRUE, v |-> ceiling.v]

safe_distance(cfg, a) ==
    safe_limit(cfg, a, "DISTANCE_LIMIT", "DISTANCE_DEFAULT", "maxDistance")

(***************************************************************************)
(* list_stations: field list, projection and `at`.                         *)
(***************************************************************************)
BaseKeys == <<K_key, K_loc, K_address, K_updated_at, K_prices, K_scraped_url>>

\* list.remove(x): drops the first occurrence.
ListRemove(l, x) ==
    LET i == CHOOSE j \in 1..Len(l) : l[j] = x /\ \A k \in 1..(j - 1) : l[k] # x
    IN  SubSeq(l, 1, i - 1) \o SubSeq(l, i + 1, Len(l))

\* Faulty variant: it forgets to rewrite '_' as '-'.
list_stations_keys_raw_token(prices) ==
    IF prices.has /\ Len(prices.s) > 0
    THEN LET toks == StrSplit(prices.s, ",")
         IN  ListRemove(BaseKeys \o [i \in 1..Len(toks) |->
                            (K_prices \o <<".">>) \o toks[i]], K_prices)
    ELSE BaseKeys

\* keys after lines 37-42.
list_stations_keys(prices) ==
    IF prices.has /\ Len(prices.s) > 0
    THEN LET toks == StrSplit(prices.s, ",")
         IN  ListRemove(BaseKeys \o [i \in 1..Len(toks) |->
                            (K_prices \o <<".">>) \o StrReplace(toks[i], "_", "-")],
                        K_prices)
    ELSE BaseKeys

\* {key: 1 for key in keys}: the projection is the set of the keys.
Projection(keys) == {keys[i] : i \in 1..Len(keys)}

\* The pieces of raw_at that are not empty, in order.
RECURSIVE NonEmptyPieces(_)
NonEmptyPieces(l) ==
    IF Len(l) = 0 THEN <<>>
    ELSE IF Len(Head(l)) = 0 THEN NonEmptyPieces(Tail(l))
         ELSE <<Head(l)>> \o NonEmptyPieces(Tail(l))

\* Lines 48-50: [ok, at]; ok = FALSE is the ValueError of float().  The test
\* `at is []` is never true, so an empty list stays an empty list.
list_stations_at(at_arg) ==
    LET raw_at == IF at_arg.has THEN at_arg.s ELSE <<>>
        toks == NonEmptyPieces(StrSplit(raw_at, ","))
    IN  IF \E i \in 1..Len(toks) : ~PyFloat(toks[i]).ok
        THEN [ok |-> FALSE, at |-> PyNone]
        ELSE [ok |-> TRUE, at |-> PyList([i \in 1..Len(toks) |-> PyFloat(toks[i]).v])]

NearGiven(a) == a.near.has /\ Len(a.near.s) > 0

(***************************************************************************)
(* geocode: key, geocoder reply, JSON.                                     *)
(***************************************************************************)
\* slugify's max_length.
SlugMaxLength == 100

AlphaNum == Digits \cup {"a", "b", "A", "B"}

Lower(c) == CASE c = "A" -> "a" [] c = "B" -> "b" [] OTHER -> c

RECURSIVE CollapseDashes(_)
CollapseDashes(s) ==
    IF Len(s) < 2 THEN s
    ELSE IF s[1] = "-" /\ s[2] = "-" THEN CollapseDashes(Tail(s))
         ELSE <<s[1]>> \o CollapseDashes(Tail(s))

RECURSIVE StripDashes(_)
StripDashes(s) ==
    IF Len(s) = 0 THEN s
    ELSE IF s[1] = "-" THEN StripDashes(Tail(s))
         ELSE IF s[Len(s)] = "-" THEN StripDashes(SubSeq(s, 1, Len(s) - 1))
              ELSE s

\* slugify(address, max_length): lower case, every run of other characters
\* one '-', no '-' at either end, cut to max_length.
Slugify(address, max_length) ==
    LET mapped == [i \in 1..Len(address) |->
                      IF address[i] \in AlphaNum THEN Lower(address[i]) ELSE "-"]
        slug == StripDashes(CollapseDashes(mapped))
    IN  IF Len(slug) > max_length THEN StripDashes(SubSeq(slug, 1, max_length))
        ELSE slug

\* 'address:%s' % slugify(address, max_length=100)
CacheKey(address) ==
    <<"a", "d", "d", "r", "e", "s", "s", ":">> \o Slugify(address, SlugMaxLength)

\* The addresses requests ask for: two that slugify to one key and that the
\* geocoder places differently, and one the geocoder has no result for.
Addresses == {<<"a">>, <<"A">>, <<"b", " ">>}

\* response.json() of the geocoder for an address.
GeocoderReply(address) ==
    CASE address = <<"a">> ->
           [results |-> <<[geometry |-> [location |-> [lng |-> 1, lat |-> 2]]]>>]
      [] address = <<"A">> ->
           [results |-> <<[geometry |-> [location |-> [lng |-> 2, lat |-> 1]]]>>]
      [] OTHER -> [results |-> <<>>]

\* dumps([lng, lat]) and loads of it.
Dumps(l) == <<"[", DigitChar(l[1]), ",", " ", DigitChar(l[2]), "]">>
Loads(s) == <<DigitVal(s[2]), DigitVal(s[5])>>

(***************************************************************************)
(* Result Projector and Distance Calculator.  A Python dict is the         *)
(* sequence of its [k, v] entries in insertion order.                      *)
(***************************************************************************)
DictHas(d, k) == \E i \in 1..Len(d) : d[i].k = k

DictGet(d, k) == d[CHOOSE i \in 1..Len(d) : d[i].k = k].v

\* d[k] = v: an existing key keeps its place and takes the new value.
DictPut(d, k, v) ==
    IF DictHas(d, k)
    THEN [i \in 1..Len(d) |-> IF d[i].k = k THEN [k |-> k, v |-> v] ELSE d[i]]
    ELSE Append(d, [k |-> k, v |-> v])

RECURSIVE UnslugifyFrom(_, _, _)
UnslugifyFrom(dic, i, acc) ==
    IF i > Len(dic) THEN acc
    ELSE UnslugifyFrom(dic, i + 1,
                       DictPut(acc, StrReplace(dic[i].k, "-", "_"), dic[i].v))

unslugify_dict(dic) == UnslugifyFrom(dic, 1, <<>>)

enrich_prices(dic) ==
    LET prices == unslugify_dict(dic)
    IN  [i \in 1..Len(prices) |-> [type |-> prices[i].k, price |-> prices[i].v]]

\* The keys of the mapping list_stations passes (lines 63-66).
Mapping == {K_prices, K_updated_at}

\* The lambda registered for a key, applied; arrow.get(x).isoformat() is
\* kept as a term over x.
ApplyLambda(key, value) ==
    IF key = K_prices THEN enrich_prices(value) ELSE [isoformat |-> value]

result_of(mapping, key, value) ==
    IF key \in mapping THEN ApplyLambda(key, value) ELSE value

\* Faulty variant: it drops every key with a '.' and keeps the included keys
\* among the others.
simple_station_drops_paths(station, included_keys, mapping) ==
    [key \in {k \in DOMAIN station :
                 ~StrContains(k, ".") /\ k \in Projection(included_keys)} |->
        result_of(mapping, key, station[key])]

simple_station(station, included_keys, mapping) ==
    [key \in {k \in DOMAIN station :
                 StrContains(k, ".") \/ k \in Projection(included_keys)} |->
        result_of(mapping, key, station[key])]

\* haversine(p, q) * 1000.0, kept as a term over its two arguments.
Haversine1000(p, q) == [haversine |-> <<p, q>>, times |-> 1000]

\* compute_distance: [ok, station]; haversine unpacks each argument as a
\* pair, ok = FALSE is the ValueError of that unpacking.
compute_distance(station, at) ==
    LET coords == station[K_loc].coordinates
    IN  [ok |-> Len(coords) = 2 /\ Len(at) = 2,
         station |-> [k \in DOMAIN station \cup {K_distance} |->
                         IF k = K_distance THEN Haversine1000(coords, at)
                         ELSE station[k]]]

(***************************************************************************)
(* The store capability (mongo.db.stations).                               *)
(***************************************************************************)
DocKeys == {K_id, K_key, K_loc, K_address, K_updated_at, K_prices, K_scraped_url}

StationDoc(id, coords, prices) ==
    [k \in DocKeys |->
        CASE k = K_id -> id
          [] k = K_key -> id
          [] k = K_loc -> [type |-> "Point", coordinates |-> coords]
          [] k = K_address -> "address"
          [] k = K_updated_at -> 1478217600
          [] k = K_prices -> prices
          [] k = K_scraped_url -> "url"]

\* The stations of company 'petrol', in the store's order.
Docs ==
    <<StationDoc("s1", <<1, 2>>, <<[k |-> <<"d", "-">>, v |-> 5]>>),
      StationDoc("s2", <<2, 1>>, <<[k |-> <<"d", "-">>, v |-> 6],
                                   [k |-> <<"e">>, v |-> 7]>>)>>

PricesDot == K_prices \o <<".">>

IsPricesPath(k) ==
    Len(k) >= Len(PricesDot) /\ SubSeq(k, 1, Len(PricesDot)) = PricesDot

PathToken(k) == SubSeq(k, Len(PricesDot) + 1, Len(k))

RECURSIVE DictFilter(_, _)
DictFilter(d, ks) ==
    IF Len(d) = 0 THEN <<>>
    ELSE IF Head(d).k \in ks THEN <<Head(d)>> \o DictFilter(Tail(d), ks)
         ELSE DictFilter(Tail(d), ks)

\* One document as the store returns it under a projection: _id and the
\* projected top-level fields, and each projected prices.<token> field the
\* document has, either under its path key (flat: the case simple_station's
\* '.' test is written for) or inside a `prices` sub-document (nested).
StoreProject(doc, proj, flat) ==
    LET plain == {K_id} \cup {k \in proj : k \in DOMAIN doc}
        paths == {k \in proj : IsPricesPath(k)}
        found == {k \in paths : DictHas(doc[K_prices], PathToken(k))}
    IN  IF paths = {} THEN [k \in plain |-> doc[k]]
        ELSE IF flat
             THEN [k \in plain \cup found |->
                      IF k \in found THEN DictGet(doc[K_prices], PathToken(k))
                      ELSE doc[k]]
             ELSE [k \in plain \cup {K_prices} |->
                      IF k = K_prices
                      THEN DictFilter(doc[K_prices], {PathToken(p) : p \in paths})
                      ELSE doc[k]]

\* cursor.limit(n): 0 is no limit, a negative n counts as -n.
CursorLimit(seq, n) ==
    LET m == IF n < 0 THEN 0 - n ELSE n
    IN  IF n = 0 \/ m >= Len(seq) THEN seq ELSE SubSeq(seq, 1, m)

\* Index sequences the query may select: every document in store order
\* without a $near clause; with one, any of them, nearest first.
Selections(near) ==
    IF near THEN {<<>>, <<1>>, <<2>>, <<1, 2>>, <<2, 1>>} ELSE {<<1, 2>>}

\* find(where, projection).limit(n), iterated: [ok, error, results], results
\* the set of record sequences the store may return.  A filter whose
\* coordinates are no list of numbers cannot be encoded by the driver, and a
\* Point of fewer than two numbers is rejected by the store.
StoreFind(where, proj, n) ==
    IF where.near /\ where.coordinates.tag # "list"
    THEN [ok |-> FALSE, error |-> "InvalidDocument", results |-> {}]
    ELSE IF where.near /\ Len(where.coordinates.v) < 2
    THEN [ok |-> FALSE, error |-> "OperationFailure", results |-> {}]
    ELSE [ok |-> TRUE, error |-> "",
          results |->
            {[i \in 1..Len(CursorLimit(sel, n)) |->
                 StoreProject(Docs[CursorLimit(sel, n)[i]], proj, flat)] :
               sel \in Selections(where.near),
               flat \in IF \E k \in proj : IsPricesPath(k) THEN BOOLEAN ELSE {FALSE}}]

(***************************************************************************)
(* State.                                                                  *)
(***************************************************************************)
VARIABLES
    config,     \* app.config
    cache,      \* redis: live key -> [val, ttl], ttl in ticks left
    pc,         \* where each request stands
    args,       \* request.args of each request
    loc,        \* list_stations' locals and its response
    frame,      \* geocode's locals, with counts of its calls to the outside
                \* and the ttl the entry had when expire reached it (0: none)
    age,        \* history: ticks since a key was last set or re-armed
    lastRet,    \* history: the pair the last successful geocode on a key returned
    resolved,   \* history: the addresses geocode was called with
    out         \* result of a function applied on its own

vars == <<config, cache, pc, args, loc, frame, age, lastRet, resolved, out>>

CacheKeys == {CacheKey(a) : a \in Addresses}

NoWhere == [near |-> FALSE, coordinates |-> PyNone, maxDistance |-> 0]

EmptyLoc ==
    [keys |-> <<>>, at |-> PyNone, where |-> NoWhere, queried |-> FALSE,
     projection |-> {}, found |-> <<>>, status |-> "", error |-> "", stations |-> <<>>]

EmptyFrame ==
    [address |-> <<>>, use_cache |-> TRUE, key |-> <<>>, cache_value |-> <<>>,
     raw_location |-> <<>>, ret |-> PyNone, hit |-> FALSE,
     calls |-> 0, sets |-> 0, expires |-> 0, had_ttl |-> 0, caller |-> ""]

NoOut == [fn |-> "", ok |-> TRUE, v |-> 0]

Init ==
    /\ config = DefaultConfig
    /\ cache = <<>>
    /\ pc = [r \in Procs |-> "idle"]
    /\ args = [r \in Procs |-> NoArgs]
    /\ loc = [r \in Procs |-> EmptyLoc]
    /\ frame = [r \in Procs |-> EmptyFrame]
    /\ age = [k \in CacheKeys |-> ExpireTTL]
    /\ lastRet = [k \in CacheKeys |-> <<>>]
    /\ resolved = {}
    /\ out = NoOut

(***************************************************************************)
(* The cache capability (redis).                                           *)
(***************************************************************************)
RedisSet(c, key, val, ttl) ==
    [k \in DOMAIN c \cup {key} |-> IF k = key THEN [val |-> val, ttl |-> ttl] ELSE c[k]]

\* EXPIRE re-arms a live key and does nothing to a missing one.
RedisExpire(c, key, ttl) ==
    [k \in DOMAIN c |-> IF k = key THEN [c[k] EXCEPT !.ttl = ttl] ELSE c[k]]

\* One tick of the clock: every entry loses a tick, an entry with none left
\* is gone (passive expiry).
Tick ==
    /\ cache' = [k \in {x \in DOMAIN cache : cache[x].ttl > 1} |->
                    [cache[k] EXCEPT !.ttl = @ - 1]]
    /\ age' = [k \in CacheKeys |-> IF age[k] < ExpireTTL THEN age[k] + 1 ELSE age[k]]
    /\ UNCHANGED <<config, pc, args, loc, frame, lastRet, resolved, out>>

(***************************************************************************)
(* geocode(address, cache=True, http_timeout=0.10, expire_ttl=86400)       *)
(***************************************************************************)
\* Entry: line 82.
GeocodeEnter(address, caller) ==
    [EmptyFrame EXCEPT !.address = address, !.key = CacheKey(address),
                       !.caller = caller]

EnterPc(f) == IF f.use_cache THEN "cache_get" ELSE "geocoder"

\* geocode returns f.ret to its caller: list_stations assigns it to `at`.
ReturnTo(r, f) ==
    /\ frame' = [frame EXCEPT ![r] = f]
    /\ IF f.caller = "list_stations"
       THEN /\ pc' = [pc EXCEPT ![r] = "query"]
            /\ loc' = [loc EXCEPT ![r].at = f.ret]
       ELSE /\ pc' = [pc EXCEPT ![r] = "returned"]
            /\ loc' = loc
    /\ lastRet' = IF f.ret.tag = "list"
                  THEN [lastRet EXCEPT ![f.key] = f.ret.v]
                  ELSE lastRet

\* A call of geocode on its own.
GeocodeCall(r) ==
    /\ pc[r] = "idle"
    /\ \E address \in Addresses :
         /\ frame' = [frame EXCEPT ![r] = GeocodeEnter(address, "")]
         /\ pc' = [pc EXCEPT ![r] = EnterPc(frame'[r])]
         /\ resolved' = resolved \cup {address}
    /\ UNCHANGED <<config, cache, args, loc, age, lastRet, out>>

\* Faulty variant: it never finds the key.
CacheGet_always_miss(r) ==
    /\ pc[r] = "cache_get"
    /\ pc' = [pc EXCEPT ![r] = "geocoder"]
    /\ UNCHANGED <<config, cache, args, loc, frame, age, lastRet, resolved, out>>

\* Line 85-86: redis_store.get(key).
CacheGet(r) ==
    /\ pc[r] = "cache_get"
    /\ LET key == frame[r].key
       IN  IF key \in DOMAIN cache
           THEN /\ frame' = [frame EXCEPT ![r].cache_value = cache[key].val,
                                          ![r].hit = TRUE]
                /\ pc' = [pc EXCEPT ![r] = "cache_expire"]
           ELSE /\ frame' = frame
                /\ pc' = [pc EXCEPT ![r] = "geocoder"]
    /\ UNCHANGED <<config, cache, args, loc, age, lastRet, resolved, out>>

\* Faulty variant: it returns the cached pair without the expire call.
CacheExpire_no_rearm(r) ==
    /\ pc[r] = "cache_expire"
    /\ LET f == frame[r]
       IN  /\ cache' = cache
           /\ age' = age
           /\ ReturnTo(r, [f EXCEPT !.expires = @ + 1,
                                    !.had_ttl = IF f.key \in DOMAIN cache
                                                THEN cache[f.key].ttl ELSE 0,
                                    !.ret = PyList(Loads(f.cache_value))])
    /\ UNCHANGED <<config, args, resolved, out>>

\* Lines 87-88: redis_store.expire(key, expire_ttl); return loads(cache_value).
CacheExpire(r) ==
    /\ pc[r] = "cache_expire"
    /\ LET f == frame[r]
       IN  /\ cache' = RedisExpire(cache, f.key, ExpireTTL)
           /\ age' = IF f.key \in DOMAIN cache THEN [age EXCEPT ![f.key] = 0] ELSE age
           /\ ReturnTo(r, [f EXCEPT !.expires = @ + 1,
                                    !.had_ttl = IF f.key \in DOMAIN cache
                                                THEN cache[f.key].ttl ELSE 0,
                                    !.ret = PyList(Loads(f.cache_value))])
    /\ UNCHANGED <<config, args, resolved, out>>

\* Lines 91-103 up to the cache write: the geocoder answers.  No results is
\* the IndexError that the except clause turns into a returned Exception.
GeocoderCall(r) ==
    /\ pc[r] = "geocoder"
    /\ LET f == [frame[r] EXCEPT !.calls = @ + 1]
           reply == GeocoderReply(f.address)
       IN  IF Len(reply.results) = 0
           THEN /\ ReturnTo(r, [f EXCEPT !.ret = PyException])
                /\ cache' = cache
           ELSE LET location == reply.results[1].geometry.location
                    raw_location == <<location.lng, location.lat>>
                IN  IF f.use_cache
                    THEN /\ frame' = [frame EXCEPT ![r] =
                                         [f EXCEPT !.raw_location = raw_location]]
                         /\ pc' = [pc EXCEPT ![r] = "cache_set"]
                         /\ UNCHANGED <<cache, loc, lastRet>>
                    ELSE /\ ReturnTo(r, [f EXCEPT !.raw_location = raw_location,
                                                  !.ret = PyList(raw_location)])
                         /\ cache' = cache
    /\ UNCHANGED <<config, args, age, resolved, out>>

\* Line 91: requests_get raises (connection refused, reset, ...); nothing in
\* geocode or list_stations catches it.
GeocoderFail(r) ==
    /\ pc[r] = "geocoder"
    /\ frame' = [frame EXCEPT ![r].calls = @ + 1, ![r].ret = [tag |-> "raised", v |-> <<>>]]
    /\ IF frame[r].caller = "list_stations"
       THEN /\ pc' = [pc EXCEPT ![r] = "done"]
            /\ loc' = [loc EXCEPT ![r].status = "error", ![r].error = "ConnectionError"]
       ELSE /\ pc' = [pc EXCEPT ![r] = "returned"]
            /\ loc' = loc
    /\ UNCHANGED <<config, cache, args, age, lastRet, resolved, out>>

\* Faulty variant: it caches the pair in [lat, lng] order.
CacheSet_swapped(r) ==
    /\ pc[r] = "cache_set"
    /\ LET f == frame[r]
       IN  /\ cache' = RedisSet(cache, f.key,
                                Dumps(<<f.raw_location[2], f.raw_location[1]>>), ExpireTTL)
           /\ age' = [age EXCEPT ![f.key] = 0]
           /\ ReturnTo(r, [f EXCEPT !.sets = @ + 1, !.ret = PyList(f.raw_location)])
    /\ UNCHANGED <<config, args, resolved, out>>

\* Lines 100-101: redis_store.set(key, dumps(raw_location), expire_ttl);
\* return raw_location.
CacheSet(r) ==
    /\ pc[r] = "cache_set"
    /\ LET f == frame[r]
       IN  /\ cache' = RedisSet(cache, f.key, Dumps(f.raw_location), ExpireTTL)
           /\ age' = [age EXCEPT ![f.key] = 0]
           /\ ReturnTo(r, [f EXCEPT !.sets = @ + 1, !.ret = PyList(f.raw_location)])
    /\ UNCHANGED <<config, args, resolved, out>>

\* The caller of a geocode call on its own is done with the result.
GeocodeDone(r) ==
    /\ pc[r] = "returned"
    /\ pc' = [pc EXCEPT ![r] = "idle"]
    /\ frame' = [frame EXCEPT ![r] = EmptyFrame]
    /\ UNCHANGED <<config, cache, args, loc, age, lastRet, resolved, out>>

(***************************************************************************)
(* list_stations                                                           *)
(***************************************************************************)
\* The query strings requests are drawn from.
PricesInputs == {Absent, Given(<<>>), Given(<<"d", "_", ",", "x">>)}
AtInputs ==
    {Absent, Given(<<>>), Given(<<"1", ",", "2">>), Given(<<"2">>),
     Given(<<"1", ",", "2", ",", "1">>), Given(<<"x", ",", "1">>)}
NearInputs == {Absent, Given(<<>>)} \cup {Given(a) : a \in Addresses}
LimitInputs == {Absent, Given(<<"1">>), Given(<<"x">>)}
DistanceInputs == {Absent, Given(<<"6", "0", "0", "0", "0">>), Given(<<"x">>)}

RequestArgs ==
    [prices : PricesInputs, at : AtInputs, near : NearInputs,
     limit : LimitInputs, maxDistance : DistanceInputs]

Fail(r, l, error) ==
    /\ loc' = [loc EXCEPT ![r] = [l EXCEPT !.status = "error", !.error = error]]
    /\ pc' = [pc EXCEPT ![r] = "done"]

\* Lines 36-54, up to the call of geocode: the field list, `at` parsed from
\* the `at` argument whatever `near` is, then geocode(near) when near is given.
ListStationsServe(r, a) ==
    /\ pc[r] = "idle"
    /\ LET keys == list_stations_keys(a.prices)
             parsed == list_stations_at(a.at)
             l == [EmptyLoc EXCEPT !.keys = keys, !.at = parsed.at]
         IN  /\ args' = [args EXCEPT ![r] = a]
             /\ IF ~parsed.ok
                THEN /\ Fail(r, l, "ValueError")
                     /\ UNCHANGED <<frame, resolved>>
                ELSE IF NearGiven(a)
                THEN /\ frame' = [frame EXCEPT ![r] = GeocodeEnter(a.near.s, "list_stations")]
                     /\ pc' = [pc EXCEPT ![r] = EnterPc(frame'[r])]
                     /\ loc' = [loc EXCEPT ![r] = l]
                     /\ resolved' = resolved \cup {a.near.s}
                ELSE /\ pc' = [pc EXCEPT ![r] = "query"]
                     /\ loc' = [loc EXCEPT ![r] = l]
                     /\ UNCHANGED <<frame, resolved>>
    /\ UNCHANGED <<config, cache, age, lastRet, out>>

\* A request with any of the query strings above arrives.
ListStationsBegin(r) == \E a \in RequestArgs : ListStationsServe(r, a)

\* Faulty variant: it never adds the $near clause.
list_stations_where_no_clause(at, max_distance) == NoWhere

\* Lines 45 and 57-59: the filter, as its $near part ('company' is fixed).
list_stations_where(at, max_distance) ==
    IF Truthy(at)
    THEN [near |-> TRUE, coordinates |-> at, maxDistance |-> max_distance]
    ELSE NoWhere

\* Every station of a sequence annotated by compute_distance.
DistancesOk(stations, at) ==
    \A i \in 1..Len(stations) : compute_distance(stations[i], at).ok

WithDistances(stations, at) ==
    [i \in 1..Len(stations) |-> compute_distance(stations[i], at).station]

\* Lines 56-77: the filter, the store query, the shaping of each record, the
\* distances, the response.
ListStationsQuery(r) ==
    /\ pc[r] = "query"
    /\ LET l == loc[r]
           at == l.at
           keys == l.keys
           distance == safe_distance(config, args[r])
           limit == safe_limit(config, args[r], "LIST_LIMIT", "LIST_DEFAULT_COUNT", "limit")
           where == list_stations_where(at, distance.v)
           included_keys == keys \o <<K_prices, K_distance>>
           lw == [l EXCEPT !.where = where]
       IN  IF Truthy(at) /\ ~distance.ok THEN Fail(r, l, "ValueError")
           ELSE IF ~limit.ok THEN Fail(r, lw, "ValueError")
           ELSE LET reply == StoreFind(where, Projection(keys), limit.v)
                    lq == [lw EXCEPT !.queried = TRUE, !.projection = Projection(keys)]
                IN  IF ~reply.ok THEN Fail(r, lq, reply.error)
                    ELSE \E found \in reply.results :
                           LET stations == [i \in 1..Len(found) |->
                                   simple_station(found[i], included_keys, Mapping)]
                               lf == [lq EXCEPT !.found = found]
                           IN  IF Truthy(at)
                               THEN IF ~DistancesOk(stations, at.v)
                                    THEN Fail(r, lf, "ValueError")
                                    ELSE /\ loc' = [loc EXCEPT ![r] =
                                              [lf EXCEPT !.status = "ok",
                                                  !.stations = WithDistances(stations, at.v)]]
                                         /\ pc' = [pc EXCEPT ![r] = "done"]
                               ELSE /\ loc' = [loc EXCEPT ![r] =
                                         [lf EXCEPT !.status = "ok", !.stations = stations]]
                                    /\ pc' = [pc EXCEPT ![r] = "done"]
    /\ UNCHANGED <<config, cache, args, frame, age, lastRet, resolved, out>>

\* The response is sent; the worker takes the next request.
ListStationsEnd(r) ==
    /\ pc[r] = "done"
    /\ pc' = [pc EXCEPT ![r] = "idle"]
    /\ args' = [args EXCEPT ![r] = NoArgs]
    /\ loc' = [loc EXCEPT ![r] = EmptyLoc]
    /\ frame' = [frame EXCEPT ![r] = EmptyFrame]
    /\ UNCHANGED <<config, cache, age, lastRet, resolved, out>>

(***************************************************************************)
(* Specifications.                                                         *)
(***************************************************************************)
\* /stations requests served one after the other, the cache living on
\* between them and the clock running.
Next ==
    \/ ListStationsBegin(1)
    \/ CacheGet(1)
    \/ CacheExpire(1)
    \/ GeocoderCall(1)
    \/ GeocoderFail(1)
    \/ CacheSet(1)
    \/ ListStationsQuery(1)
    \/ ListStationsEnd(1)
    \/ Tick

Spec == Init /\ [][Next]_vars

\* Concurrent calls of geocode, every cache and geocoder call a step.
GeoNext ==
    \/ \E r \in Procs :
         \/ GeocodeCall(r)
         \/ CacheGet(r)
         \/ CacheExpire(r)
         \/ GeocoderCall(r)
         \/ GeocoderFail(r)
         \/ CacheSet(r)
         \/ GeocodeDone(r)
    \/ Tick

GeoSpec == Init /\ [][GeoNext]_vars

\* Requests under the fairness the server gives: a worker that can
\* take its next step takes it, and the cache and the store answer.  Nothing
\* makes the geocoder answer or fail.
WorkerStep ==
    \/ CacheGet(1)
    \/ CacheExpire(1)
    \/ CacheSet(1)
    \/ ListStationsQuery(1)
    \/ ListStationsEnd(1)

\* Requests that differ in their `near` argument only.
NearArgs == {[NoArgs EXCEPT !.near = n] : n \in NearInputs}

NearBegin == \E a \in NearArgs : ListStationsServe(1, a)

LiveNext ==
    \/ NearBegin
    \/ CacheGet(1)
    \/ CacheExpire(1)
    \/ GeocoderCall(1)
    \/ GeocoderFail(1)
    \/ CacheSet(1)
    \/ ListStationsQuery(1)
    \/ ListStationsEnd(1)
    \/ Tick

LiveSpec == Init /\ [][LiveNext]_vars /\ WF_vars(WorkerStep)

\* Requests that differ in their `prices` argument only: every string over
\* PricesAlphabet up to MaxLen characters.
PricesAlphabet == {"d", "_", "-", ","}

PricesStrings == UNION {[1..n -> PricesAlphabet] : n \in 0..MaxLen}

ProjArgs == {[NoArgs EXCEPT !.prices = p] : p \in {Absent} \cup {Given(s) : s \in PricesStrings}}

ProjBegin == \E a \in ProjArgs : ListStationsServe(1, a)

ProjNext ==
    \/ ProjBegin
    \/ ListStationsQuery(1)
    \/ ListStationsEnd(1)

ProjSpec == Init /\ [][ProjNext]_vars

\* safe_limit and safe_distance applied under every configuration and
\* request value up to MaxCfg.
IntStr(n) == IF n < 0 THEN <<"-", DigitChar(0 - n)>> ELSE <<DigitChar(n)>>

CfgValues == {IntStr(n) : n \in 0..MaxCfg}

LimitValues == {Absent, Given(<<"x">>)} \cup {Given(IntStr(n)) : n \in (0 - 1)..(MaxCfg + 1)}

LimitInit ==
    /\ config \in [LIST_LIMIT : CfgValues, LIST_DEFAULT_COUNT : CfgValues,
                   DISTANCE_DEFAULT : CfgValues, DISTANCE_LIMIT : CfgValues]
    /\ \E l \in LimitValues, d \in LimitValues :
         args = [r \in Procs |-> IF r = 1
                                 THEN [NoArgs EXCEPT !.limit = l, !.maxDistance = d]
                                 ELSE NoArgs]
    /\ cache = <<>>
    /\ pc = [r \in Procs |-> "idle"]
    /\ loc = [r \in Procs |-> EmptyLoc]
    /\ frame = [r \in Procs |-> EmptyFrame]
    /\ age = [k \in CacheKeys |-> ExpireTTL]
    /\ lastRet = [k \in CacheKeys |-> <<>>]
    /\ resolved = {}
    /\ out = NoOut

CallSafeLimit ==
    /\ out.fn = ""
    /\ LET res == safe_limit(config, args[1], "LIST_LIMIT", "LIST_DEFAULT_COUNT", "limit")
       IN  out' = [out EXCEPT !.fn = "safe_limit", !.ok = res.ok, !.v = res.v]
    /\ UNCHANGED <<config, cache, pc, args, loc, frame, age, lastRet, resolved>>

CallSafeDistance ==
    /\ out.fn = ""
    /\ LET res == safe_distance(config, args[1])
       IN  out' = [out EXCEPT !.fn = "safe_distance", !.ok = res.ok, !.v = res.v]
    /\ UNCHANGED <<config, cache, pc, args, loc, frame, age, lastRet, resolved>>

LimitNext == CallSafeLimit \/ CallSafeDistance

LimitSpec == LimitInit /\ [][LimitNext]_vars

(***************************************************************************)
(* Properties.                                                             *)
(***************************************************************************)
Min(a, b) == IF a < b THEN a ELSE b

\* geocode has returned a value to its caller.
Returned(r) == frame[r].ret.tag \in {"list", "Exception"}

\* geocode's step from one place of its body to the next.
Leaves(r, place) == pc[r] = place /\ pc'[r] # place

\* C1 -- cache-aside: a geocode call that missed the cache and found the
\* address made exactly one geocoder call and one cache write and no expire;
\* a call that hit made no geocoder call, no write and exactly one expire.
C1_Counts ==
    \A r \in Procs :
        (Returned(r) /\ frame[r].use_cache /\ frame[r].ret.tag = "list") =>
            IF frame[r].hit
            THEN frame[r].calls = 0 /\ frame[r].sets = 0 /\ frame[r].expires = 1
            ELSE frame[r].calls = 1 /\ frame[r].sets = 1 /\ frame[r].expires = 0

\* C1 -- the write of the first resolve stores the returned pair under the
\* address's key with the full TTL; a lookup made fewer than ExpireTTL ticks
\* after the last write or re-arm of the key is a hit; a hit returns the pair
\* the previous successful resolve of that key returned.
C1_Step ==
    \A r \in Procs :
        /\ Leaves(r, "cache_set") =>
              /\ frame[r].key \in DOMAIN cache'
              /\ cache'[frame[r].key] =
                     [val |-> Dumps(frame'[r].ret.v), ttl |-> ExpireTTL]
        /\ (Leaves(r, "cache_get") /\ age[frame[r].key] < ExpireTTL) =>
              /\ pc'[r] = "cache_expire"
              /\ frame'[r].hit
        /\ Leaves(r, "cache_expire") =>
              frame'[r].ret = PyList(lastRet[frame[r].key])

\* C1 -- cache-aside correctness of geocode with caching on, for requests
\* served one after the other: first resolve one geocoder call and one cache
\* write, second resolve within the TTL no geocoder call, no write, one
\* expire, and the same [lng, lat] pair.
C1_CacheAside == []C1_Counts /\ [][C1_Step]_vars

\* A second resolve has hit the cache and returned.
C1_Witness ==
    \E r \in Procs :
        /\ Returned(r) /\ frame[r].hit
        /\ frame[r].expires = 1 /\ frame[r].calls = 0
        /\ frame[r].ret = PyList(lastRet[frame[r].key])

\* An entry lives exactly ExpireTTL ticks from its last write or re-arm: it is
\* in the cache while fewer ticks have passed, with the rest as its ttl, and
\* gone once ExpireTTL ticks have passed.
C3_Lifetime ==
    \A k \in CacheKeys :
        /\ k \in DOMAIN cache <=> age[k] < ExpireTTL
        /\ k \in DOMAIN cache => cache[k].ttl = ExpireTTL - age[k]

\* An entry leaves the cache only by a tick of the clock that finds it with
\* one tick left: no step of geocode deletes one.
C3_NeverDeletes ==
    \A k \in DOMAIN cache :
        k \notin DOMAIN cache' => (cache[k].ttl = 1 /\ pc' = pc /\ frame' = frame)

\* The coordinates of a live entry change only by a cache write (set).
C3_ValueStable ==
    \A k \in DOMAIN cache \cap DOMAIN cache' :
        cache'[k].val # cache[k].val =>
            \E r \in Procs : Leaves(r, "cache_set") /\ frame[r].key = k

\* The expire of a hit that finds the entry alive gives it the full TTL and
\* leaves its coordinates; one that finds it gone does not bring it back.
C3_HitRearmsLive ==
    \A r \in Procs :
        Leaves(r, "cache_expire") =>
            IF frame[r].key \in DOMAIN cache
            THEN /\ frame[r].key \in DOMAIN cache'
                 /\ cache'[frame[r].key] =
                        [val |-> cache[frame[r].key].val, ttl |-> ExpireTTL]
            ELSE cache' = cache

\* Every hit leaves the entry in the cache with the full TTL and its
\* coordinates.
C3_HitRearms ==
    \A r \in Procs :
        Leaves(r, "cache_expire") =>
            /\ frame[r].key \in DOMAIN cache'
            /\ cache'[frame[r].key] = [val |-> frame[r].cache_value, ttl |-> ExpireTTL]

\* C3 as stated -- sliding TTL: every cache hit re-arms the entry to the full
\* expiry window, an entry resolved at intervals shorter than the TTL never
\* expires, one not resolved for a full window expires passively, geocode
\* never deletes an entry and a hit never changes the coordinates.
C3_AsStated ==
    []C3_Lifetime /\ [][C3_HitRearms /\ C3_NeverDeletes /\ C3_ValueStable]_vars

\* C3 amended -- sliding TTL: every cache hit whose entry is still alive when
\* its expire call runs re-arms the entry to the full expiry window (an entry
\* that expired between the hit's get and its expire is not brought back); an
\* entry lives exactly one expiry window from its last write or re-arm;
\* geocode never deletes an entry and a hit never changes the coordinates.
C3_SlidingTTL ==
    []C3_Lifetime /\ [][C3_HitRearmsLive /\ C3_NeverDeletes /\ C3_ValueStable]_vars

\* A hit has re-armed an entry that had already lost part of its window.
C3_Witness ==
    \E r \in Procs :
        /\ Returned(r) /\ frame[r].hit /\ frame[r].expires = 1
        /\ frame[r].had_ttl > 0 /\ frame[r].had_ttl < ExpireTTL
        /\ frame[r].key \in DOMAIN cache
        /\ cache[frame[r].key].ttl = ExpireTTL

\* Address a is the only address geocode was called with for its key.
Solo(a) == \A b \in resolved : CacheKey(b) = CacheKey(a) => b = a

\* The [lng, lat] pairs of the geocoder's first result for an address (none
\* when it has no result).
GeocoderPairs(a) ==
    LET reply == GeocoderReply(a)
    IN  IF Len(reply.results) = 0 THEN {}
        ELSE {<<reply.results[1].geometry.location.lng,
                reply.results[1].geometry.location.lat>>}

\* C10 -- concurrent resolves of one address need no lock: whatever the
\* interleaving of get, expire, geocoder call, set and passive expiry, every
\* call that returns coordinates returns the geocoder's for the address, the
\* cache entry of the address's key is absent or holds exactly them, and a
\* failed lookup is never written.
C10_NoLockNeeded ==
    /\ \A a \in Addresses :
          Solo(a) =>
            /\ \A r \in Procs :
                  (frame[r].address = a /\ frame[r].ret.tag = "list") =>
                      frame[r].ret.v \in GeocoderPairs(a)
            /\ (a \in resolved /\ CacheKey(a) \in DOMAIN cache) =>
                  \E p \in GeocoderPairs(a) : cache[CacheKey(a)].val = Dumps(p)
    /\ \A k \in DOMAIN cache :
          \E a \in resolved :
              /\ CacheKey(a) = k
              /\ \E p \in GeocoderPairs(a) : cache[k].val = Dumps(p)

\* Two calls for one address both missed, both asked the geocoder and both
\* wrote the entry.
C10_Witness ==
    \E r1, r2 \in Procs :
        /\ r1 # r2
        /\ frame[r1].address = frame[r2].address
        /\ Solo(frame[r1].address)
        /\ Returned(r1) /\ Returned(r2)
        /\ frame[r1].sets = 1 /\ frame[r2].sets = 1
        /\ CacheKey(frame[r1].address) \in DOMAIN cache

\* C7 -- every request whose `near` address missed the cache and that waits
\* for the geocoder completes, also when the geocoder never answers.
C7_GeocoderBounded == (pc[1] = "geocoder") ~> (pc[1] = "done")

\* The geocoder had no result for the request's `near` address.
GeocodeNotFound(r) ==
    frame[r].caller = "list_stations" /\ frame[r].ret.tag = "Exception"

\* C2 -- a `near` address the geocoder has no result for ends the request in
\* a GeocodeNotFound error: the request is never answered 'ok', the store is
\* never queried with a reference point that is no coordinate list, and the
\* request never goes on without a location filter.
C2_GeocodeNotFound ==
    \A r \in Procs :
        GeocodeNotFound(r) =>
            /\ loc[r].status # "ok"
            /\ ~(loc[r].queried /\ loc[r].where.coordinates.tag # "list")
            /\ ~(loc[r].queried /\ ~loc[r].where.near)
            /\ pc[r] = "done" =>
                  (loc[r].status = "error" /\ loc[r].error = "GeocodeNotFound")

\* C5 -- reference-point priority: with a non-empty `near` the request goes
\* on to resolve `near` whatever `at` holds, a malformed `at` included; and
\* an empty or absent `at` without `near` is no error and no reference point.
C5_NearBeforeAt ==
    \A r \in Procs :
        /\ (pc[r] # "idle" /\ NearGiven(args[r])) =>
              frame[r].caller = "list_stations"
        /\ (pc[r] # "idle" /\ ~NearGiven(args[r]) /\ Len(args[r].at.s) = 0) =>
              /\ loc[r].at = PyList(<<>>)
              /\ ~loc[r].where.near
              /\ loc[r].status = "error" =>
                    ~safe_limit(config, args[r], "LIST_LIMIT",
                                "LIST_DEFAULT_COUNT", "limit").ok

\* The reference point of a request: what geocode returned for `near`, else
\* the numbers of `at`.
RefPoint(r) ==
    IF NearGiven(args[r]) THEN frame[r].ret ELSE list_stations_at(args[r].at).at

RefResolved(r) == RefPoint(r).tag = "list" /\ Len(RefPoint(r).v) > 0

\* The radius the Limit Enforcer allows a request.
EnforcedRadius(r) ==
    Min(IF args[r].maxDistance.has THEN PyInt(args[r].maxDistance.s).v
        ELSE PyInt(config.DISTANCE_DEFAULT).v,
        PyInt(config.DISTANCE_LIMIT).v)

C8_NoPathKey ==
    \A r \in Procs :
        loc[r].status = "ok" =>
            \A i \in 1..Len(loc[r].stations) :
                \A k \in DOMAIN loc[r].stations[i] : ~IsPricesPath(k)

\* C8 amended -- every path-shaped key (one with a '.') of a raw store record
\* that reaches simple_station is copied into the response record with its
\* value as it is: a response record has a key prices.<token> exactly when
\* the store's record has it.
C8_PathKeyCopied ==
    \A r \in Procs :
        loc[r].status = "ok" =>
            /\ Len(loc[r].stations) = Len(loc[r].found)
            /\ \A i \in 1..Len(loc[r].found) :
                  /\ \A k \in DOMAIN loc[r].found[i] :
                        StrContains(k, ".") =>
                            /\ k \in DOMAIN loc[r].stations[i]
                            /\ loc[r].stations[i][k] = loc[r].found[i][k]
                  /\ \A k \in DOMAIN loc[r].stations[i] :
                        IsPricesPath(k) => k \in DOMAIN loc[r].found[i]

\* The store returned a record with a prices.<token> key and the response
\* record has it.
C8_Witness ==
    \E r \in Procs :
        /\ loc[r].status = "ok"
        /\ \E i \in 1..Len(loc[r].found) :
              \E k \in DOMAIN loc[r].found[i] :
                  /\ IsPricesPath(k)
                  /\ k \in DOMAIN loc[r].stations[i]

\* The tokens of a `prices` string: its longest stretches without a comma.
Tokens(s) ==
    {SubSeq(s, i, j) : <<i, j>> \in
        {ij \in (1..(Len(s) + 1)) \X (0..Len(s)) :
            /\ ij[2] >= ij[1] - 1
            /\ (ij[1] = 1 \/ s[ij[1] - 1] = ",")
            /\ (ij[2] = Len(s) \/ s[ij[2] + 1] = ",")
            /\ \A k \in ij[1]..ij[2] : s[k] # ","}}

Commas(s) == Cardinality({i \in 1..Len(s) : s[i] = ","})

\* A token with each underscore written as a hyphen.
Hyphenated(t) == [i \in 1..Len(t) |-> IF t[i] = "_" THEN "-" ELSE t[i]]

BaseFields == {K_key, K_loc, K_address, K_updated_at, K_prices, K_scraped_url}

\* C9 -- the projection sent to the store: for a non-empty `prices` the base
\* fields without the bare `prices` plus one prices.<token> per requested
\* token, underscores written as hyphens; for an absent or empty `prices`
\* exactly the base fields, `prices` included.
C9_Projection ==
    \A r \in Procs :
        loc[r].queried =>
            LET p == args[r].prices
            IN  IF p.has /\ Len(p.s) > 0
                THEN /\ loc[r].projection =
                            (BaseFields \ {K_prices}) \cup
                            {PricesDot \o Hyphenated(t) : t \in Tokens(p.s)}
                     /\ Len(loc[r].keys) = Cardinality(BaseFields) + Commas(p.s)
                     /\ \A i \in 1..Len(loc[r].keys) : loc[r].keys[i] \in loc[r].projection
                ELSE /\ loc[r].projection = BaseFields
                     /\ loc[r].keys = BaseKeys

\* The store was queried for prices=_,d: two tokens, one with an underscore.
C9_Witness ==
    \E r \in Procs :
        /\ loc[r].queried
        /\ args[r].prices = Given(<<"_", ",", "d">>)
        /\ loc[r].projection =
               (BaseFields \ {K_prices}) \cup
               {PricesDot \o <<"-">>, PricesDot \o <<"d">>}

\* The number a configuration or request string of LimitSpec writes.
NumberOf(s) == CHOOSE n \in (0 - 1)..(MaxCfg + 1) : IntStr(n) = s

IsNumber(s) == \E n \in (0 - 1)..(MaxCfg + 1) : IntStr(n) = s

\* What was asked of the function applied: the request's value, the
\* configured ceiling and the configured default.
Asked ==
    IF out.fn = "safe_limit"
    THEN [param |-> args[1].limit, ceiling |-> NumberOf(config.LIST_LIMIT),
          default |-> NumberOf(config.LIST_DEFAULT_COUNT)]
    ELSE [param |-> args[1].maxDistance, ceiling |-> NumberOf(config.DISTANCE_LIMIT),
          default |-> NumberOf(config.DISTANCE_DEFAULT)]

\* A supplied integer L gives min(L, ceiling): never more than the ceiling,
\* capped and not rejected.
C4_Supplied ==
    (out.fn # "" /\ Asked.param.has /\ IsNumber(Asked.param.s)) =>
        /\ out.ok
        /\ out.v = Min(NumberOf(Asked.param.s), Asked.ceiling)
        /\ out.v <= Asked.ceiling

\* C4 as stated -- the Limit Enforcer under every configuration: an absent
\* parameter gives exactly the configured default, a supplied integer L
\* gives min(L, ceiling).
C4_AsStated ==
    /\ C4_Supplied
    /\ (out.fn # "" /\ ~Asked.param.has) => (out.ok /\ out.v = Asked.default)

\* C4 amended -- the Limit Enforcer under every configuration: an absent
\* parameter gives min(default, ceiling), which is the configured default
\* whenever the default is not above the ceiling; a supplied integer L gives
\* min(L, ceiling); the result never exceeds the ceiling.
C4_Clamp ==
    /\ C4_Supplied
    /\ (out.fn # "" /\ ~Asked.param.has) =>
          /\ out.ok
          /\ out.v = Min(Asked.default, Asked.ceiling)
          /\ (Asked.default <= Asked.ceiling => out.v = Asked.default)
    /\ (out.fn # "" /\ out.ok) => out.v <= Asked.ceiling

\* safe_distance capped a maxDistance above the ceiling, and safe_limit
\* could too.
C4_Witness ==
    /\ out.fn = "safe_distance"
    /\ Asked.param.has /\ IsNumber(Asked.param.s)
    /\ NumberOf(Asked.param.s) > Asked.ceiling
    /\ out.ok /\ out.v = Asked.ceiling

====
